---- MODULE Spec2Model ----
(***************************************************************************)
(* Model of hypnoglow/kudo: package parsing, task validation and CRD       *)
(* compilation (pkg/kudoctl/packages/package.go), the batch loader         *)
(* GetFilesDigest/mapPaths/pathToOperator, and the plan-status selector    *)
(* GetLastExecutedPlanStatus exercised by TestGetLastExecutedPlanStatus.   *)
(*                                                                         *)
(* Strings whose characters matter (file paths, object names) are          *)
(* sequences of one-character strings.  File contents are abstract YAML    *)
(* documents together with what yaml.Unmarshal makes of them for each      *)
(* target type.                                                            *)
(***************************************************************************)
EXTENDS Integers, Sequences, FiniteSets, TLC

VARIABLES
  currentPackage,   \* PackageFiles being accumulated by parsePackageFile
  lastCall,         \* the last parsePackageFile call: its path, bytes and returned error
  ncalls,           \* number of parsePackageFile calls made so far
  opCalled,         \* some call took the operator-file branch
  paramsCalled,     \* some call took the parameters-file branch
  crds,             \* result of the last getCRDs call
  paths,            \* GetFilesDigest: the input list of sources
  ops,              \* GetFilesDigest: the returned []*PackageFilesDigest
  warnings,         \* GetFilesDigest: the sources named by the printed warnings
  loaded,           \* GetFilesDigest: what pathToOperator returned for each source
  batchDone,        \* GetFilesDigest has returned
  planStatus,       \* Instance.Status.PlanStatus
  selected,         \* result of GetLastExecutedPlanStatus
  selectDone,       \* GetLastExecutedPlanStatus has returned
  feed              \* the files of one package, in the order they are handed to the parser

vars == <<currentPackage, lastCall, ncalls, opCalled, paramsCalled, crds,
          paths, ops, warnings, loaded, batchDone,
          planStatus, selected, selectDone, feed>>

parserVars == <<currentPackage, lastCall, ncalls, opCalled, paramsCalled, crds>>
batchVars  == <<paths, ops, warnings, loaded, batchDone>>
planVars   == <<planStatus, selected, selectDone>>

(***************************************************************************)
(* Bounds                                                                  *)
(***************************************************************************)
MaxCalls   == 3    \* parsePackageFile calls per behaviour
MaxSources == 3    \* length of the list given to GetFilesDigest
MaxTime    == 2    \* last-finished timestamps range over 0..MaxTime
MaxFiles   == 4    \* files of the package parsed file by file

(***************************************************************************)
(* Strings                                                                 *)
(***************************************************************************)
operatorFileName == <<"o","p","e","r","a","t","o","r",".","y","a","m","l">>
paramsFileName   == <<"p","a","r","a","m","s",".","y","a","m","l">>
\* the literal parts of templateFileNameRegex = "templates/.*.yaml"
templatesDir     == <<"t","e","m","p","l","a","t","e","s","/">>
yamlLetters      == <<"y","a","m","l">>

\* s[i..i+Len(t)-1] = t
MatchAt(s, i, t) ==
  /\ i >= 1
  /\ i + Len(t) - 1 <= Len(s)
  /\ \A k \in 1..Len(t) : s[i + k - 1] = t[k]

\* strings.HasSuffix
HasSuffix(s, suffix) ==
  /\ Len(s) >= Len(suffix)
  /\ MatchAt(s, Len(s) - Len(suffix) + 1, suffix)

\* the regexp metacharacter '.', which matches any character but a newline
DotMatches(c) == c # "\n"

\* regexp.Match(templateFileNameRegex, name): unanchored search for
\* "templates/" then any run (.*), then one character (.), then "yaml"
RegexMatchTemplate(name) ==
  \E i \in 1..Len(name) :
    /\ MatchAt(name, i, templatesDir)
    /\ \E j \in (i + Len(templatesDir))..Len(name) :
         /\ \A k \in (i + Len(templatesDir))..j : DotMatches(name[k])
         /\ MatchAt(name, j + 1, yamlLetters)

\* index of the first occurrence of sep in s at or after position from; 0 if none
IndexFrom(s, sep, from) ==
  LET hits == {i \in from..Len(s) : MatchAt(s, i, sep)}
  IN  IF hits = {} THEN 0 ELSE CHOOSE i \in hits : \A h \in hits : i <= h

\* strings.Split(s, sep) for a non-empty sep: cut at each occurrence, left to right
RECURSIVE Split(_, _)
Split(s, sep) ==
  LET i == IndexFrom(s, sep, 1)
  IN  IF i = 0 THEN <<s>>
      ELSE <<SubSeq(s, 1, i - 1)>> \o Split(SubSeq(s, i + Len(sep), Len(s)), sep)

\* fmt.Sprintf("%s-%s", a, b)
SprintfDash(a, b) == a \o <<"-">> \o b

(***************************************************************************)
(* Values                                                                  *)
(***************************************************************************)
NoErr == [code |-> "nil", detail |-> <<>>]
Err(code, detail) == [code |-> code, detail |-> detail]

\* task.ApplyTaskKind, task.DeleteTaskKind, task.DummyTaskKind
ApplyTaskKind  == "Apply"
DeleteTaskKind == "Delete"
DummyTaskKind  == "Dummy"

\* template names used by the packages of the model
FooYaml    == <<"f","o","o",".","y","a","m","l">>
BarYaml    == <<"b","a","r",".","y","a","m","l">>
SubFooYaml == <<"s","u","b","/">> \o FooYaml

\* v1alpha1.Task: Name, Kind, Spec.ResourceTaskSpec.Resources
Task(name, kind, resources) == [Name |-> name, Kind |-> kind, Resources |-> resources]

\* *Operator: the nil pointer, and the struct a pointer points to
NilOperator == [isNil |-> TRUE, Name |-> <<>>, Version |-> <<>>, Tasks |-> <<>>]
OperatorStruct(name, version, tasks) ==
  [isNil |-> FALSE, Name |-> name, Version |-> version, Tasks |-> tasks]
ZeroOperator == OperatorStruct(<<>>, <<>>, <<>>)

\* []v1alpha1.Parameter: Go tells the nil slice from the empty one
NilParams == [isNil |-> TRUE, list |-> <<>>]
\* a parameter list declared with var and never made: nil while nothing is appended
ParamsOfNilWhenEmpty(list) == [isNil |-> (list = <<>>), list |-> list]
ParamsOf(list) == [isNil |-> FALSE, list |-> list]

\* one entry of the parameters file, a map[string]string under a parameter name
ParamEntry(name, hasRequired, required, hasDefault, default) ==
  [name |-> name, hasRequired |-> hasRequired, required |-> required,
   hasDefault |-> hasDefault, default |-> default]

(***************************************************************************)
(* File contents: YAML documents                                           *)
(***************************************************************************)
Doc(kind, op, entries, id) == [kind |-> kind, op |-> op, entries |-> entries, id |-> id]

OpName == <<"o","p">>
TaskT1 == <<"t","1">>
TaskT2 == <<"t","2">>

\* the empty document
DocEmpty    == Doc("empty", NilOperator, {}, 0)
\* bytes that are no YAML at all
DocInvalid  == Doc("invalid", NilOperator, {}, 0)
\* operator documents with name, version and tasks keys
DocOpNoTasks == Doc("operator", OperatorStruct(OpName, <<"1">>, <<>>), {}, 1)
DocOpOneRef  == Doc("operator",
                  OperatorStruct(OpName, <<"1",".","0">>,
                    << Task(TaskT1, ApplyTaskKind, <<FooYaml>>),
                       Task(TaskT2, DummyTaskKind, <<BarYaml>>) >>), {}, 2)
DocOpTwoRefs == Doc("operator",
                  OperatorStruct(OpName, <<"2">>,
                    << Task(TaskT1, ApplyTaskKind, <<FooYaml>>),
                       Task(TaskT2, DeleteTaskKind, <<FooYaml, SubFooYaml>>),
                       Task(<<"t","3">>, "Pipe", <<BarYaml>>) >>), {}, 3)
\* an operator document whose tasks key holds a scalar: name and version decode,
\* tasks is a type error
DocOpBadTasks == Doc("opbadtasks", OperatorStruct(<<"x">>, <<"9">>, <<>>), {}, 4)
\* parameter documents
DocParamsOne == Doc("params", NilOperator,
                  {ParamEntry("p1", FALSE, "", FALSE, "")}, 5)
DocParamsTwo == Doc("params", NilOperator,
                  {ParamEntry("p1", TRUE, "false", TRUE, "d"),
                   ParamEntry("p2", TRUE, "T", FALSE, "")}, 6)
DocParamsBad == Doc("params", NilOperator,
                  {ParamEntry("p1", TRUE, "maybe", FALSE, ""),
                   ParamEntry("p2", FALSE, "", FALSE, "")}, 7)
DocParamsMixed == Doc("params", NilOperator,
                    {ParamEntry("p1", FALSE, "", FALSE, ""),
                     ParamEntry("p2", TRUE, "false", FALSE, "")}, 9)
\* a Kubernetes manifest: a mapping with none of the operator keys
DocManifest  == Doc("manifest", NilOperator, {}, 8)

Docs == {DocEmpty, DocInvalid, DocOpNoTasks, DocOpOneRef, DocOpTwoRefs, DocOpBadTasks,
         DocParamsOne, DocParamsTwo, DocParamsBad, DocParamsMixed, DocManifest}

ParamNames == {"p1", "p2"}

\* the orders in which a range over a Go map may visit the parameter names
MapOrders ==
  {o \in [1..Cardinality(ParamNames) -> ParamNames] :
     \A i, j \in DOMAIN o : i # j => o[i] # o[j]}

\* yaml.Unmarshal(fileBytes, &currentPackage.Operator): the pointer after the
\* call and the error.  null resets the pointer; keys the document has overwrite
\* the fields; a type error is reported after the other keys were decoded.
UnmarshalOperator(fileBytes, cur) ==
  CASE fileBytes.kind = "empty"      -> [val |-> NilOperator, err |-> NoErr]
    [] fileBytes.kind = "invalid"    -> [val |-> cur, err |-> Err("failed to unmarshal operator file", <<>>)]
    [] fileBytes.kind = "operator"   -> [val |-> fileBytes.op, err |-> NoErr]
    [] fileBytes.kind = "opbadtasks" ->
         [val |-> OperatorStruct(fileBytes.op.Name, fileBytes.op.Version, cur.Tasks),
          err |-> Err("failed to unmarshal operator file", <<>>)]
    [] OTHER -> [val |-> IF cur.isNil THEN ZeroOperator ELSE cur, err |-> NoErr]

\* yaml.Unmarshal(fileBytes, &params) for params map[string]map[string]string
UnmarshalParams(fileBytes) ==
  CASE fileBytes.kind = "empty"  -> [val |-> {}, err |-> NoErr]
    [] fileBytes.kind = "params" -> [val |-> fileBytes.entries, err |-> NoErr]
    [] OTHER -> [val |-> {}, err |-> Err("failed to unmarshal parameters file", <<>>)]

\* strconv.ParseBool
ParseBool(str) ==
  CASE str \in {"1", "t", "T", "TRUE", "true", "True"}     -> [val |-> TRUE,  ok |-> TRUE]
    [] str \in {"0", "f", "F", "FALSE", "false", "False"}  -> [val |-> FALSE, ok |-> TRUE]
    [] OTHER -> [val |-> FALSE, ok |-> FALSE]

(***************************************************************************)
(* Package parser                                                          *)
(***************************************************************************)
\* PackageFiles
PackageFiles(templates, operator, params) ==
  [Templates |-> templates, Operator |-> operator, Params |-> params]

EmptyTemplates == [k \in {} |-> DocEmpty]

newPackageFiles == PackageFiles(EmptyTemplates, NilOperator, NilParams)

isOperatorFile(name)   == HasSuffix(name, operatorFileName)
isTemplateFile(name)   == RegexMatchTemplate(name)
isParametersFile(name) == HasSuffix(name, paramsFileName)

\* the template name taken after the first occurrence: pathParts[1]
TemplateNameFirst(filePath) ==
  LET pathParts == Split(filePath, templatesDir)
  IN  pathParts[2]

\* pathParts := strings.Split(filePath, "templates/"); pathParts[len(pathParts)-1]
TemplateName(filePath) ==
  LET pathParts == Split(filePath, templatesDir)
  IN  pathParts[Len(pathParts)]

\* an unexpected file passed over in silence
UnexpectedFileSkipped(filePath) == NoErr

\* fmt.Errorf("unexpected file when reading package from filesystem: %s", filePath)
UnexpectedFileError(filePath) ==
  Err("unexpected file when reading package from filesystem", filePath)

\* the body of the loop over the parameters map, in the order ord visits the names
RECURSIVE ParamsLoop(_, _, _)
ParamsLoop(params, ord, paramsStruct) ==
  IF ord = <<>> THEN [list |-> paramsStruct, err |-> NoErr]
  ELSE
    LET paramName == Head(ord)
        found     == {e \in params : e.name = paramName}
    IN  IF found = {} THEN ParamsLoop(params, Tail(ord), paramsStruct)
        ELSE
          LET param  == CHOOSE e \in found : TRUE
              parsed == ParseBool(param.required)
          IN  IF param.hasRequired /\ ~parsed.ok
              THEN [list |-> paramsStruct,
                    err  |-> Err("failed parsing required field from parameter", <<paramName>>)]
              ELSE
                LET r == [Name       |-> paramName,
                          Required   |-> IF param.hasRequired THEN parsed.val ELSE TRUE,
                          HasDefault |-> param.hasDefault,
                          Default    |-> IF param.hasDefault THEN param.default ELSE ""]
                IN  ParamsLoop(params, Tail(ord), Append(paramsStruct, r))

\* case isOperatorFile: the pointer is whatever yaml.Unmarshal left in it
OperatorCase(pkg, u) == [pkg |-> [pkg EXCEPT !.Operator = u.val], err |-> u.err]

\* a template whose name is already in the map keeps its first content
TemplateCaseKeepFirst(pkg, name, fileBytes) ==
  [pkg |-> [pkg EXCEPT !.Templates =
              [k \in DOMAIN pkg.Templates \cup {name} |->
                 IF k \in DOMAIN pkg.Templates THEN pkg.Templates[k] ELSE fileBytes]],
   err |-> NoErr]

\* case isTemplateFile: currentPackage.Templates[name] = string(fileBytes)
TemplateCase(pkg, name, fileBytes) ==
  [pkg |-> [pkg EXCEPT !.Templates =
              [k \in DOMAIN pkg.Templates \cup {name} |->
                 IF k = name THEN fileBytes ELSE pkg.Templates[k]]],
   err |-> NoErr]

\* the parameters built before the error are installed all the same
InstallParamsPartial(pkg, l) ==
  [pkg |-> [pkg EXCEPT !.Params = ParamsOf(l.list)], err |-> l.err]

\* case isParametersFile, after the loop: currentPackage.Params = paramsStruct
\* unless the loop returned an error
InstallParams(pkg, l) ==
  IF l.err # NoErr THEN [pkg |-> pkg, err |-> l.err]
  ELSE [pkg |-> [pkg EXCEPT !.Params = ParamsOf(l.list)], err |-> NoErr]

\* case isParametersFile: unmarshal, then the loop over the map in the order ord
ParametersCase(pkg, u, ord) ==
  IF u.err # NoErr THEN [pkg |-> pkg, err |-> u.err]
  ELSE InstallParams(pkg, ParamsLoop(u.val, ord, <<>>))

\* parsePackageFile: the bundle after the call and the returned error.  ord is
\* the order in which the range over the parameters map visits its keys.
parsePackageFile(filePath, fileBytes, pkg, ord) ==
  IF isOperatorFile(filePath)
  THEN OperatorCase(pkg, UnmarshalOperator(fileBytes, pkg.Operator))
  ELSE IF isTemplateFile(filePath)
  THEN TemplateCase(pkg, TemplateName(filePath), fileBytes)
  ELSE IF isParametersFile(filePath)
  THEN ParametersCase(pkg, UnmarshalParams(fileBytes), ord)
  ELSE [pkg |-> pkg, err |-> UnexpectedFileError(filePath)]

(***************************************************************************)
(* Task validation and compilation                                         *)
(***************************************************************************)
TaskWord    == <<"t","a","s","k"," ">>
MissingWord == <<" ","m","i","s","s","i","n","g"," ","t","e","m","p","l","a","t","e",":"," ">>

\* fmt.Sprintf("task %s missing template: %s", t.Name, res)
MissingLine(taskName, res) == TaskWord \o taskName \o MissingWord \o res

\* strings.Join(elems, "\n")
RECURSIVE Join(_)
Join(elems) ==
  IF elems = <<>> THEN <<>>
  ELSE IF Len(elems) = 1 THEN elems[1]
  ELSE elems[1] \o <<"\n">> \o Join(Tail(elems))

\* the resources validateTask looks up: those of the two resource kinds only
TaskResources(t) ==
  IF t.Kind = ApplyTaskKind \/ t.Kind = DeleteTaskKind THEN t.Resources ELSE <<>>

RECURSIVE MissingLines(_, _, _)
MissingLines(taskName, resources, templates) ==
  IF resources = <<>> THEN <<>>
  ELSE (IF Head(resources) \in DOMAIN templates THEN <<>>
        ELSE <<MissingLine(taskName, Head(resources))>>)
       \o MissingLines(taskName, Tail(resources), templates)

\* validateTask stopping at the first missing template
validateTaskFirstOnly(t, templates) ==
  LET all == MissingLines(t.Name, TaskResources(t), templates)
  IN  IF all = <<>> THEN <<>> ELSE <<all[1]>>

validateTask(t, templates) == MissingLines(t.Name, TaskResources(t), templates)

\* the loop of getCRDs that appends every task's violations
RECURSIVE ValidateTasks(_, _)
ValidateTasks(tasks, templates) ==
  IF tasks = <<>> THEN <<>>
  ELSE validateTask(Head(tasks), templates) \o ValidateTasks(Tail(tasks), templates)

\* the label every compiled object carries, and kudo.OperatorLabel
ProvenanceKey == "controller-tools.k8s.io"
OperatorLabel == "kudo.dev/operator"
NoLabels      == [k \in {} |-> ""]

NoCRDs == [Operator |-> [Name |-> <<>>, Labels |-> NoLabels],
           OperatorVersion |-> [Name |-> <<>>, Labels |-> NoLabels, OperatorRef |-> <<>>,
                                Version |-> <<>>, Templates |-> EmptyTemplates,
                                Tasks |-> <<>>, Parameters |-> NilParams],
           Instance |-> [Name |-> <<>>, Labels |-> NoLabels, OperatorVersionRef |-> <<>>]]

\* the Operator object getCRDs builds
OperatorOf(p) == [Name |-> p.Operator.Name, Labels |-> (ProvenanceKey :> "1.0")]

\* the OperatorVersion object getCRDs builds
OperatorVersionOf(p) ==
  [Name        |-> SprintfDash(p.Operator.Name, p.Operator.Version),
   Labels      |-> (ProvenanceKey :> "1.0"),
   OperatorRef |-> p.Operator.Name,
   Version     |-> p.Operator.Version,
   Templates   |-> p.Templates,
   Tasks       |-> p.Operator.Tasks,
   Parameters  |-> p.Params]

\* an Instance that references the Operator's name where the OperatorVersion's belongs
InstanceOfRefOperator(p, suffix) ==
  [Name   |-> SprintfDash(p.Operator.Name, suffix),
   Labels |-> (ProvenanceKey :> "1.0") @@ (OperatorLabel :> p.Operator.Name),
   OperatorVersionRef |-> p.Operator.Name]

\* the Instance object getCRDs builds; suffix is what rand.String(6) returns
InstanceOf(p, suffix) ==
  [Name   |-> SprintfDash(p.Operator.Name, suffix),
   Labels |-> (ProvenanceKey :> "1.0") @@ (OperatorLabel :> p.Operator.Name),
   OperatorVersionRef |-> SprintfDash(p.Operator.Name, p.Operator.Version)]

\* the end of getCRDs: the joined violations as one error, or the three objects
CompileOrFail(p, suffix, errs) ==
  IF Len(errs) # 0
  THEN [crds |-> NoCRDs, err |-> Err("tasks", Join(errs))]
  ELSE [crds |-> [Operator        |-> OperatorOf(p),
                  OperatorVersion |-> OperatorVersionOf(p),
                  Instance        |-> InstanceOf(p, suffix)],
        err |-> NoErr]

\* (p *PackageFiles) getCRDs()
getCRDs(p, suffix) ==
  IF p.Operator.isNil
  THEN [crds |-> NoCRDs, err |-> Err("operator.yaml file is missing", <<>>)]
  ELSE IF p.Params.isNil
  THEN [crds |-> NoCRDs, err |-> Err("params.yaml file is missing", <<>>)]
  ELSE CompileOrFail(p, suffix, ValidateTasks(p.Operator.Tasks, p.Templates))

\* values rand.String(6) may return
RandStrings == { <<"b","c","d","f","g","h">>, <<"z","2","x","4","k","9">> }

(***************************************************************************)
(* Files fed to the parser                                                 *)
(***************************************************************************)
PathOperator       == operatorFileName
PathMyOperator     == <<"m","y">> \o operatorFileName
PathTplOperator    == templatesDir \o operatorFileName
PathParams         == paramsFileName
PathXParams        == <<"x">> \o paramsFileName
PathTplParams      == templatesDir \o paramsFileName
PathFoo            == <<"p","/">> \o templatesDir \o FooYaml
PathBar            == templatesDir \o BarYaml
PathSubFoo         == templatesDir \o SubFooYaml
PathNested         == <<"a","/">> \o templatesDir \o <<"b","/">> \o templatesDir \o FooYaml
PathBak            == templatesDir \o FooYaml \o <<".","b","a","k">>
PathFooyaml        == templatesDir \o <<"f","o","o","y","a","m","l">>
PathTplYaml        == templatesDir \o yamlLetters
PathTplNewline     == templatesDir \o <<"\n">> \o yamlLetters
PathYml            == templatesDir \o <<"f","o","o",".","y","m","l">>
PathBareFoo        == FooYaml
PathReadme         == <<"R","E","A","D","M","E",".","m","d">>

File(path, bytes) == [path |-> path, bytes |-> bytes]

OperatorFiles ==
  {File(PathOperator, d) : d \in {DocEmpty, DocInvalid, DocOpNoTasks, DocOpOneRef,
                                  DocOpTwoRefs, DocOpBadTasks, DocManifest}}
  \cup {File(PathMyOperator, DocOpOneRef), File(PathTplOperator, DocOpNoTasks)}
ParamsFiles ==
  {File(PathParams, d) : d \in {DocEmpty, DocInvalid, DocParamsOne, DocParamsTwo,
                                DocParamsBad, DocParamsMixed, DocOpNoTasks}}
  \cup {File(PathXParams, DocParamsOne)}
TemplateFiles ==
  {File(PathFoo, d) : d \in {DocManifest, DocInvalid}}
  \cup {File(q, DocManifest) : q \in {PathBar, PathSubFoo, PathNested, PathTplParams,
                                      PathBak, PathFooyaml}}
OtherFiles ==
  {File(q, DocManifest) : q \in {PathTplYaml, PathTplNewline, PathYml, PathBareFoo,
                                 PathReadme}}

Files == OperatorFiles \cup ParamsFiles \cup TemplateFiles \cup OtherFiles

NoCall == [made |-> FALSE, path |-> <<>>, bytes |-> DocEmpty, err |-> NoErr]
NoResult == [called |-> FALSE, crds |-> NoCRDs, err |-> NoErr]

(***************************************************************************)
(* Specification of the parser and the compiler                            *)
(***************************************************************************)
BatchIdle == 
  /\ paths = <<>> /\ ops = <<>> /\ warnings = <<>> /\ loaded = <<>> /\ batchDone = FALSE
PlanIdle ==
  /\ planStatus = [n \in {} |-> 0] /\ selected = <<>> /\ selectDone = FALSE
FeedIdle ==
  /\ feed = <<>>
ParserIdle ==
  /\ currentPackage = newPackageFiles
  /\ lastCall = NoCall
  /\ ncalls = 0
  /\ opCalled = FALSE
  /\ paramsCalled = FALSE
  /\ crds = NoResult

Init == ParserIdle /\ BatchIdle /\ PlanIdle /\ FeedIdle

\* one call parsePackageFile(f.path, f.bytes, &currentPackage)
ParsePackageFile(f, ord) ==
  LET r == parsePackageFile(f.path, f.bytes, currentPackage, ord)
  IN  /\ ncalls < MaxCalls
      /\ ~crds.called
      /\ currentPackage' = r.pkg
      /\ lastCall' = [made |-> TRUE, path |-> f.path, bytes |-> f.bytes, err |-> r.err]
      /\ ncalls' = ncalls + 1
      /\ opCalled' = (opCalled \/ isOperatorFile(f.path))
      /\ paramsCalled' = (paramsCalled \/
            (~isOperatorFile(f.path) /\ ~isTemplateFile(f.path) /\ isParametersFile(f.path)))
      /\ UNCHANGED <<crds, batchVars, planVars, feed>>

\* one call currentPackage.getCRDs()
GetCRDs(suffix) ==
  LET r == getCRDs(currentPackage, suffix)
  IN  /\ ~crds.called
      /\ crds' = [called |-> TRUE, crds |-> r.crds, err |-> r.err]
      /\ UNCHANGED <<currentPackage, lastCall, ncalls, opCalled, paramsCalled,
                     batchVars, planVars, feed>>

Next ==
  \/ \E f \in Files, ord \in MapOrders : ParsePackageFile(f, ord)
  \/ \E suffix \in RandStrings : GetCRDs(suffix)

Spec == Init /\ [][Next]_vars

(***************************************************************************)
(* Batch loader                                                            *)
(***************************************************************************)
\* what the file system holds under a path: whether Open, Sha256Sum, Seek,
\* ReadAll and Close succeed on it, whether its bytes are a gzipped tarball,
\* the files of the tarball in order, and the digest of its bytes
Source(open, sum, seek, read, close, tar, files, digest) ==
  [openOK |-> open, sumOK |-> sum, seekOK |-> seek, readOK |-> read, closeOK |-> close,
   tarOK |-> tar, files |-> files, digest |-> digest]

GoodSource(files, digest) == Source(TRUE, TRUE, TRUE, TRUE, TRUE, TRUE, files, digest)

FS ==
  [name \in {"valid", "absent", "nosum", "noread", "noclose", "garbage", "unknownfile",
             "nooperator", "noparams", "missingtemplate", "badparams"} |->
     CASE name = "valid" ->
            GoodSource(<<File(PathOperator, DocOpOneRef), File(PathParams, DocParamsTwo),
                         File(PathFoo, DocManifest)>>, "d1")
       [] name = "absent"  -> Source(FALSE, TRUE, TRUE, TRUE, TRUE, TRUE, <<>>, "d2")
       [] name = "nosum"   -> Source(TRUE, FALSE, TRUE, TRUE, TRUE, TRUE, <<>>, "d3")
       [] name = "noread"  -> Source(TRUE, TRUE, TRUE, FALSE, TRUE, TRUE, <<>>, "d4")
       [] name = "noclose" ->
            Source(TRUE, TRUE, TRUE, TRUE, FALSE, TRUE,
                   <<File(PathOperator, DocOpNoTasks), File(PathParams, DocEmpty)>>, "d5")
       [] name = "garbage" -> Source(TRUE, TRUE, TRUE, TRUE, TRUE, FALSE, <<>>, "d6")
       [] name = "unknownfile" ->
            GoodSource(<<File(PathOperator, DocOpNoTasks), File(PathReadme, DocManifest),
                         File(PathParams, DocParamsOne)>>, "d7")
       [] name = "nooperator" ->
            GoodSource(<<File(PathParams, DocParamsOne), File(PathFoo, DocManifest)>>, "d8")
       [] name = "noparams" ->
            GoodSource(<<File(PathOperator, DocOpNoTasks)>>, "d9")
       [] name = "missingtemplate" ->
            GoodSource(<<File(PathOperator, DocOpTwoRefs), File(PathParams, DocParamsOne),
                         File(PathFoo, DocManifest)>>, "d10")
       [] name = "badparams" ->
            GoodSource(<<File(PathOperator, DocOpNoTasks), File(PathParams, DocParamsBad)>>,
                       "d11")]

NilPkg == [isNil |-> TRUE, pkg |-> newPackageFiles]
PkgPtr(pkg) == [isNil |-> FALSE, pkg |-> pkg]

\* the loop of GetPkgFiles over the files of the tarball: parsePackageFile on
\* each file in turn; r is what the call on the file before returned, and the
\* loop gives up at the first error
RECURSIVE ParseFiles(_, _, _)
ParseFiles(files, r, ord) ==
  IF r.err # NoErr THEN [pkg |-> NilPkg, err |-> r.err]
  ELSE IF files = <<>> THEN [pkg |-> PkgPtr(r.pkg), err |-> NoErr]
  ELSE ParseFiles(Tail(files),
                  parsePackageFile(Head(files).path, Head(files).bytes, r.pkg, ord), ord)

\* b.GetPkgFiles() of the tarball bundle, starting from newPackageFiles()
GetPkgFiles(src, ord) ==
  IF ~src.tarOK THEN [pkg |-> NilPkg, err |-> Err("gzip: invalid header", <<>>)]
  ELSE ParseFiles(src.files, [pkg |-> newPackageFiles, err |-> NoErr], ord)

\* if err != nil { return nil, err }; return pkg, nil
NilOnError(r) == IF r.err # NoErr THEN [pkg |-> NilPkg, err |-> r.err] ELSE r

\* the error of compiling the bundle r holds, where r has no error of its own
WithCompileError(r, c) ==
  IF r.err # NoErr THEN r
  ELSE IF c.err # NoErr THEN [pkg |-> NilPkg, err |-> c.err]
  ELSE r

\* bufferToPackageFiles that also compiles the bundle and reports the compile error
bufferToPackageFilesCompiling(src, ord) ==
  WithCompileError(NilOnError(GetPkgFiles(src, ord)),
                   getCRDs(GetPkgFiles(src, ord).pkg.pkg, <<"b","c","d","f","g","h">>))

\* bufferToPackageFiles
bufferToPackageFiles(src, ord) == NilOnError(GetPkgFiles(src, ord))

NilPfd == [isNil |-> TRUE, PkgFiles |-> NilPkg, Digest |-> ""]
\* &PackageFilesDigest{pkg, digest}
PackageFilesDigest(pkg, digest) == [isNil |-> FALSE, PkgFiles |-> pkg, Digest |-> digest]

\* the deferred function of pathToOperator: a failing Close replaces err
DeferredClose(src, ret) ==
  IF ~src.closeOK THEN [pfd |-> ret.pfd, err |-> Err("close", <<>>)] ELSE ret

\* pfd = &PackageFilesDigest{pkg, digest}; return pfd, err
ReturnDigest(src, b) == [pfd |-> PackageFilesDigest(b.pkg, src.digest), err |-> b.err]

\* pathToOperator from Sha256Sum on
AfterOpen(src, ord) ==
  IF ~src.sumOK       THEN [pfd |-> NilPfd, err |-> Err("sha256", <<>>)]
  ELSE IF ~src.seekOK THEN [pfd |-> NilPfd, err |-> Err("seek", <<>>)]
  ELSE IF ~src.readOK THEN [pfd |-> NilPfd, err |-> Err("read", <<>>)]
  ELSE ReturnDigest(src, bufferToPackageFiles(src, ord))

\* pathToOperator: the named results pfd and err, after the deferred Close
pathToOperator(fs, path, ord) ==
  IF ~fs[path].openOK THEN [pfd |-> NilPfd, err |-> Err("open", <<>>)]
  ELSE DeferredClose(fs[path], AfterOpen(fs[path], ord))

\* the loop body of mapPaths that appends a failed source's result as well
MapStepNoContinue(acc, path, r) ==
  IF r.err # NoErr
  THEN [ops |-> Append(acc.ops, r.pfd), warnings |-> Append(acc.warnings, path)]
  ELSE [ops |-> Append(acc.ops, r.pfd), warnings |-> acc.warnings]

\* the loop body of mapPaths, given what f returned for path
MapStep(acc, path, r) ==
  IF r.err # NoErr
  THEN [ops |-> acc.ops, warnings |-> Append(acc.warnings, path)]
  ELSE [ops |-> Append(acc.ops, r.pfd), warnings |-> acc.warnings]

\* one turn of the loop of mapPaths, r being what f returned for ps[i]
RECURSIVE MapLoop(_, _, _, _, _, _)
MapTurn(fs, ps, ords, i, acc, returned, r) ==
  MapLoop(fs, ps, ords, i + 1, MapStep(acc, ps[i], r), Append(returned, r))

\* the loop of mapPaths from its i-th turn on, with f = pathToOperator, the
\* function GetFilesDigest passes; ords[i] is the map order during the i-th call
\* of f, returned what f returned at the turns before
MapLoop(fs, ps, ords, i, acc, returned) ==
  IF i > Len(ps) THEN [ops |-> acc.ops, warnings |-> acc.warnings, loaded |-> returned]
  ELSE MapTurn(fs, ps, ords, i, acc, returned, pathToOperator(fs, ps[i], ords[i]))

\* mapPaths: ops, the warnings printed, and what f returned at each turn
mapPaths(fs, ps, ords) ==
  MapLoop(fs, ps, ords, 1, [ops |-> <<>>, warnings |-> <<>>], <<>>)

\* the lists of sources GetFilesDigest is called with
PathLists == UNION {[1..n -> DOMAIN FS] : n \in 0..MaxSources}

InitBatch ==
  /\ ParserIdle /\ PlanIdle /\ FeedIdle
  /\ paths \in PathLists
  /\ ops = <<>> /\ warnings = <<>> /\ loaded = <<>> /\ batchDone = FALSE

\* GetFilesDigest(fs, paths)
GetFilesDigest(ords) ==
  LET r == mapPaths(FS, paths, ords)
  IN  /\ ~batchDone
      /\ ops' = r.ops
      /\ warnings' = r.warnings
      /\ loaded' = r.loaded
      /\ batchDone' = TRUE
      /\ UNCHANGED <<paths, parserVars, planVars, feed>>

\* a map order matters only where some map ranged over has several keys; for
\* the other sources one order stands for all
OrderMatters(src) == \E i \in 1..Len(src.files) : Cardinality(src.files[i].bytes.entries) > 1
SomeOrder == CHOOSE o \in MapOrders : TRUE
BatchOrders ==
  {ords \in [1..Len(paths) -> MapOrders] :
     \A i \in 1..Len(paths) : OrderMatters(FS[paths[i]]) \/ ords[i] = SomeOrder}

NextBatch == \E ords \in BatchOrders : GetFilesDigest(ords)

SpecBatch == InitBatch /\ [][NextBatch]_vars

(***************************************************************************)
(* Properties of the parser and the compiler                               *)
(***************************************************************************)
Newline == <<"\n">>

\* the paths the package format names: the file called operator.yaml, the file
\* called params.yaml, and the .yaml files under a directory called templates
BaseName(path) ==
  LET slashes == {i \in 1..Len(path) : path[i] = "/"}
  IN  IF slashes = {} THEN path
      ELSE SubSeq(path, (CHOOSE i \in slashes : \A k \in slashes : k <= i) + 1, Len(path))
UnderTemplatesDir(path) ==
  \E i \in 1..Len(path) :
    /\ MatchAt(path, i, templatesDir)
    /\ i = 1 \/ path[i - 1] = "/"
FormatPath(path) ==
  \/ BaseName(path) = operatorFileName
  \/ BaseName(path) = paramsFileName
  \/ UnderTemplatesDir(path) /\ HasSuffix(path, <<".","y","a","m","l">>)

UnexpectedFile == "unexpected file when reading package from filesystem"

\* C4: every path other than operator.yaml, params.yaml and the .yaml files under
\* templates/ is rejected by parsePackageFile with the unexpected-file error.
C4_OnlyFormatPathsAccepted ==
  (lastCall.made /\ ~FormatPath(lastCall.path)) => lastCall.err.code = UnexpectedFile

\* the (task, resource) positions whose template is missing, over the tasks of
\* the two resource kinds
MissingRefs(p) ==
  {<<i, j>> \in (1..Len(p.Operator.Tasks)) \X (1..3) :
     /\ p.Operator.Tasks[i].Kind \in {ApplyTaskKind, DeleteTaskKind}
     /\ j <= Len(p.Operator.Tasks[i].Resources)
     /\ p.Operator.Tasks[i].Resources[j] \notin DOMAIN p.Templates}

RefBefore(a, b) == a[1] < b[1] \/ (a[1] = b[1] /\ a[2] < b[2])

RECURSIVE RefsInOrder(_)
RefsInOrder(refs) ==
  IF refs = {} THEN <<>>
  ELSE LET first == CHOOSE a \in refs : \A b \in refs \ {a} : RefBefore(a, b)
       IN  <<first>> \o RefsInOrder(refs \ {first})

ExpectedLines(p) ==
  LET refs == RefsInOrder(MissingRefs(p))
  IN  [n \in 1..Len(refs) |->
         MissingLine(p.Operator.Tasks[refs[n][1]].Name,
                     p.Operator.Tasks[refs[n][1]].Resources[refs[n][2]])]

\* C5: with metadata and parameters present, getCRDs fails exactly when a task of
\* kind Apply or Delete references a template that is no key of the template set,
\* and the lines of its error are the 'task <name> missing template: <res>' lines
\* of all the missing references of all tasks, one each.
C5_TaskValidationAggregated ==
  (crds.called /\ ~currentPackage.Operator.isNil /\ ~currentPackage.Params.isNil) =>
    /\ (crds.err # NoErr) <=> (MissingRefs(currentPackage) # {})
    /\ crds.err # NoErr =>
         /\ Split(crds.err.detail, Newline) = ExpectedLines(currentPackage)
         /\ Len(Split(crds.err.detail, Newline)) = Cardinality(MissingRefs(currentPackage))

\* two tasks miss templates (one of them two), while a task of another kind
\* names a template that is absent too
C5_Witness ==
  /\ crds.called
  /\ crds.err.code = "tasks"
  /\ Len(Split(crds.err.detail, Newline)) = 3
  /\ \E i \in 1..Len(currentPackage.Operator.Tasks) :
       /\ currentPackage.Operator.Tasks[i].Kind \notin {ApplyTaskKind, DeleteTaskKind}
       /\ \E j \in 1..Len(currentPackage.Operator.Tasks[i].Resources) :
            currentPackage.Operator.Tasks[i].Resources[j] \notin DOMAIN currentPackage.Templates

\* C6: getCRDs fails with 'operator.yaml file is missing' when no operator file
\* was ever parsed, with 'params.yaml file is missing' when the metadata is there
\* but no parameters file was ever parsed, and with neither when the parameters
\* file was parsed and declared no parameter: that parse leaves a non-nil empty list.
C6_CompletenessPreconditions ==
  /\ (crds.called /\ ~opCalled) => crds.err = Err("operator.yaml file is missing", <<>>)
  /\ (crds.called /\ ~currentPackage.Operator.isNil /\ ~paramsCalled) =>
        crds.err = Err("params.yaml file is missing", <<>>)
  /\ (/\ lastCall.made
      /\ ~isOperatorFile(lastCall.path) /\ ~isTemplateFile(lastCall.path)
      /\ isParametersFile(lastCall.path)
      /\ lastCall.err = NoErr
      /\ UnmarshalParams(lastCall.bytes).val = {}) =>
        /\ currentPackage.Params = [isNil |-> FALSE, list |-> <<>>]
        /\ (crds.called /\ ~currentPackage.Operator.isNil) =>
              crds.err.code \notin {"operator.yaml file is missing", "params.yaml file is missing"}
        /\ (crds.called /\ ~currentPackage.Operator.isNil /\ MissingRefs(currentPackage) = {}) =>
              crds.err = NoErr

\* a bundle with metadata whose parameters file declared nothing was compiled
C6_Witness ==
  /\ crds.called
  /\ crds.err = NoErr
  /\ lastCall.made /\ lastCall.path = PathParams /\ lastCall.bytes = DocEmpty
  /\ currentPackage.Params.list = <<>>

\* C7: after a successful getCRDs the three objects refer to each other by name and
\* carry the provenance label.
C7_CrossReferences ==
  (crds.called /\ crds.err = NoErr) =>
    LET c    == crds.crds
        name == currentPackage.Operator.Name
    IN  /\ c.Operator.Name = name
        /\ c.OperatorVersion.Name = name \o <<"-">> \o currentPackage.Operator.Version
        /\ c.OperatorVersion.OperatorRef = c.Operator.Name
        /\ c.Instance.OperatorVersionRef = c.OperatorVersion.Name
        /\ Len(c.Instance.Name) = Len(name) + 1 + 6
        /\ SubSeq(c.Instance.Name, 1, Len(name) + 1) = name \o <<"-">>
        /\ c.Instance.Labels[OperatorLabel] = c.Operator.Name
        /\ \A o \in {c.Operator, c.OperatorVersion, c.Instance} :
             ProvenanceKey \in DOMAIN o.Labels /\ o.Labels[ProvenanceKey] = "1.0"

C7_Witness ==
  /\ crds.called
  /\ crds.err = NoErr
  /\ currentPackage.Operator.Name = OpName
  /\ currentPackage.Operator.Version = <<"1",".","0">>
  /\ DOMAIN currentPackage.Templates # {}

\* the part of path after the last occurrence of "templates/"
AfterLastTemplatesDir(path) ==
  LET hits == {i \in 1..Len(path) : MatchAt(path, i, templatesDir)}
      last == CHOOSE i \in hits : \A h \in hits : h <= i
  IN  SubSeq(path, last + Len(templatesDir), Len(path))

TreatedAsTemplate(path) == ~isOperatorFile(path) /\ isTemplateFile(path)

\* C10: a call of parsePackageFile on a path it treats as a template file stores
\* the file's content under the part of the path after the last "templates/",
\* keeps every other template, and leaves the metadata and the parameter list as
\* they were.
C10_TemplateKey ==
  [][(ncalls' = ncalls + 1 /\ TreatedAsTemplate(lastCall'.path)) =>
       LET key == AfterLastTemplatesDir(lastCall'.path)
       IN  /\ lastCall'.err = NoErr
           /\ DOMAIN currentPackage'.Templates = DOMAIN currentPackage.Templates \cup {key}
           /\ currentPackage'.Templates[key] = lastCall'.bytes
           /\ \A k \in DOMAIN currentPackage.Templates \ {key} :
                currentPackage'.Templates[k] = currentPackage.Templates[k]
           /\ currentPackage'.Operator = currentPackage.Operator
           /\ currentPackage'.Params = currentPackage.Params]_vars

\* a path with two occurrences of "templates/" was stored under what follows the
\* last one, in a bundle that already had metadata
C10_Witness ==
  /\ lastCall.made
  /\ lastCall.path = PathNested
  /\ FooYaml \in DOMAIN currentPackage.Templates
  /\ ~currentPackage.Operator.isNil

(***************************************************************************)
(* Properties of the batch loader                                          *)
(***************************************************************************)
IsUnknownPath(path) ==
  ~isOperatorFile(path) /\ ~isTemplateFile(path) /\ ~isParametersFile(path)

\* file f, parsed on its own, is accepted
ParsesAlone(f) ==
  \A ord \in MapOrders : parsePackageFile(f.path, f.bytes, newPackageFiles, ord).err = NoErr

IOSucceeds(src) == src.openOK /\ src.sumOK /\ src.seekOK /\ src.readOK /\ src.closeOK

InOps(src) == \E n \in 1..Len(ops) : ops[n].Digest = src.digest
Warned(path) == \E n \in 1..Len(warnings) : warnings[n] = path

\* C3: a package with a file that is neither the metadata file, nor a template,
\* nor the parameters file fails to load: parsePackageFile returns the
\* unexpected-file error for that file when the parse gets to it, no bundle comes
\* back from pathToOperator, and the package is not among the results.
C3_UnknownFileFailsParse ==
  batchDone =>
    \A k \in 1..Len(paths) :
      LET src     == FS[paths[k]]
          unknown == {i \in 1..Len(src.files) : IsUnknownPath(src.files[i].path)}
          first   == CHOOSE i \in unknown : \A j \in unknown : i <= j
      IN  unknown # {} =>
            /\ loaded[k].err # NoErr
            /\ loaded[k].pfd.PkgFiles.isNil
            /\ ~InOps(src)
            /\ Warned(paths[k])
            /\ (/\ IOSucceeds(src) /\ src.tarOK
                /\ \A j \in 1..(first - 1) : ParsesAlone(src.files[j])) =>
                 loaded[k].err = Err(UnexpectedFile, src.files[first].path)

\* the package with a README.md after its operator.yaml was loaded and dropped
C3_Witness ==
  /\ batchDone
  /\ \E k \in 1..Len(paths) :
       /\ paths[k] = "unknownfile"
       /\ loaded[k].err = Err(UnexpectedFile, PathReadme)
  /\ Len(ops) < Len(paths)

\* the elements of seq at the positions that satisfy keep, in order
RECURSIVE PickFrom(_, _, _)
PickFrom(seq, keep, i) ==
  IF i > Len(seq) THEN <<>>
  ELSE (IF i \in keep THEN <<seq[i]>> ELSE <<>>) \o PickFrom(seq, keep, i + 1)

\* C8: the result of GetFilesDigest is the list of what the load function
\* returned for the sources on which it succeeded, in input order; the warnings
\* name the sources on which it failed, one each, in input order.
C8_PartialFailure ==
  batchDone =>
    LET good == {k \in 1..Len(paths) : loaded[k].err = NoErr}
        bad  == (1..Len(paths)) \ good
    IN  /\ Len(loaded) = Len(paths)
        /\ ops = PickFrom([k \in 1..Len(paths) |-> loaded[k].pfd], good, 1)
        /\ warnings = PickFrom(paths, bad, 1)
        /\ Len(ops) = Len(paths) - Cardinality(bad)

\* three sources, the middle one malformed: two results, in input order
C8_Witness ==
  /\ batchDone
  /\ Len(paths) = 3
  /\ loaded[1].err = NoErr /\ loaded[2].err # NoErr /\ loaded[3].err = NoErr
  /\ Len(ops) = 2 /\ Len(warnings) = 1
  /\ ops[1].Digest = FS[paths[1]].digest
  /\ ops[2].Digest = FS[paths[3]].digest
  /\ ops[1].Digest # ops[2].Digest

\* source k was read and parsed, and the bundle it gave does not compile
ParsedButNotCompiling(k) ==
  /\ IOSucceeds(FS[paths[k]])
  /\ FS[paths[k]].tarOK
  /\ \A i \in 1..Len(FS[paths[k]].files) : ParsesAlone(FS[paths[k]].files[i])
  /\ \A suffix \in RandStrings :
       getCRDs(loaded[k].pfd.PkgFiles.pkg, suffix).err # NoErr

ExecutionNeverRun   == "NEVER_RUN"
ExecutionInProgress == "IN_PROGRESS"
ExecutionComplete   == "COMPLETE"

PlanDeploy == <<"d","e","p","l","o","y">>
PlanTest   == <<"t","e","s","t">>
PlanTest2  == <<"t","e","s","t","2">>
PlanNames  == {PlanDeploy, PlanTest, PlanTest2}

\* the byte value of the characters plan names are written in
Code(c) ==
  CASE c = "2" -> 50  [] c = "d" -> 100 [] c = "e" -> 101 [] c = "l" -> 108
    [] c = "o" -> 111 [] c = "p" -> 112 [] c = "s" -> 115 [] c = "t" -> 116
    [] c = "y" -> 121

\* a < b as Go strings
LexLess(a, b) ==
  \E i \in 1..(Len(a) + 1) :
    /\ \A k \in 1..(i - 1) : k <= Len(b) /\ a[k] = b[k]
    /\ \/ i = Len(a) + 1 /\ Len(b) >= i
       \/ i <= Len(a) /\ i <= Len(b) /\ Code(a[i]) < Code(b[i])

\* PlanStatus: Name, Status, LastFinishedRun (0 is the zero time)
PlanStatus(name, status, finished) ==
  [Name |-> name, Status |-> status, LastFinishedRun |-> finished]

NoPlan == [isNil |-> TRUE, plan |-> PlanStatus(<<>>, ExecutionNeverRun, 0)]
PlanPtr(plan) == [isNil |-> FALSE, plan |-> plan]

\* what a plan's status may be: never run and never finished; in progress or
\* complete, with the time of its last finished run
StatusValues(name) ==
  {PlanStatus(name, ExecutionNeverRun, 0)}
  \cup {PlanStatus(name, st, t) : st \in {ExecutionInProgress, ExecutionComplete},
                                  t \in 0..MaxTime}

PlanStatusMaps ==
  UNION {{m \in [names -> UNION {StatusValues(n) : n \in names}] :
            \A n \in names : m[n].Name = n} : names \in SUBSET PlanNames}

\* the names of a set in lexical order
RECURSIVE NamesInOrder(_)
NamesInOrder(names) ==
  IF names = {} THEN <<>>
  ELSE LET first == CHOOSE a \in names : \A b \in names \ {a} : LexLess(a, b)
       IN  <<first>> \o NamesInOrder(names \ {first})

\* the scan that compares with >=, so that the last plan in name order wins a tie
RECURSIVE LatestCompleteOrEqual(_, _, _)
LatestCompleteOrEqual(m, order, best) ==
  IF order = <<>> THEN best
  ELSE LET p == m[Head(order)]
       IN  IF p.Status # ExecutionComplete THEN LatestCompleteOrEqual(m, Tail(order), best)
           ELSE IF best.isNil \/ p.LastFinishedRun >= best.plan.LastFinishedRun
                THEN LatestCompleteOrEqual(m, Tail(order), PlanPtr(p))
                ELSE LatestCompleteOrEqual(m, Tail(order), best)

\* the scan over the complete plans in name order, keeping the plan that
\* finished strictly later than the one kept so far
RECURSIVE LatestComplete(_, _, _)
LatestComplete(m, order, best) ==
  IF order = <<>> THEN best
  ELSE LET p == m[Head(order)]
       IN  IF p.Status # ExecutionComplete THEN LatestComplete(m, Tail(order), best)
           ELSE IF best.isNil \/ p.LastFinishedRun > best.plan.LastFinishedRun
                THEN LatestComplete(m, Tail(order), PlanPtr(p))
                ELSE LatestComplete(m, Tail(order), best)

\* the selector that looks at finish times before it looks for a plan in progress
selectRelevantPlanLatestFirst(m) ==
  LET latest == LatestComplete(m, NamesInOrder(DOMAIN m), NoPlan)
  IN  IF ~latest.isNil THEN {latest}
      ELSE {PlanPtr(m[n]) : n \in {x \in DOMAIN m : m[x].Status = ExecutionInProgress}}
           \cup (IF \E x \in DOMAIN m : m[x].Status = ExecutionInProgress THEN {} ELSE {NoPlan})

\* GetLastExecutedPlanStatus: the results the selector may return.  Which plan
\* it returns when several are in progress is left open.
selectRelevantPlan(m) ==
  LET inProgress == {n \in DOMAIN m : m[n].Status = ExecutionInProgress}
  IN  IF inProgress # {} THEN {PlanPtr(m[n]) : n \in inProgress}
      ELSE {LatestComplete(m, NamesInOrder(DOMAIN m), NoPlan)}

InitPlan ==
  /\ ParserIdle /\ BatchIdle /\ FeedIdle
  /\ planStatus \in PlanStatusMaps
  /\ selected = NoPlan
  /\ selectDone = FALSE

\* i.GetLastExecutedPlanStatus()
GetLastExecutedPlanStatus ==
  /\ ~selectDone
  /\ selected' \in selectRelevantPlan(planStatus)
  /\ selectDone' = TRUE
  /\ UNCHANGED <<planStatus, parserVars, batchVars, feed>>

NextPlan == GetLastExecutedPlanStatus

SpecPlan == InitPlan /\ [][NextPlan]_vars

(***************************************************************************)
(* Properties of the plan selector                                         *)
(***************************************************************************)
SomeInProgress == \E n \in DOMAIN planStatus : planStatus[n].Status = ExecutionInProgress
CompletePlans  == {n \in DOMAIN planStatus : planStatus[n].Status = ExecutionComplete}

\* C1: when some plan is in progress, the selector returns a plan of the map
\* that is in progress, whatever the other plans' states and finish times.
C1_InProgressFirst ==
  (selectDone /\ SomeInProgress) =>
    /\ ~selected.isNil
    /\ selected.plan.Name \in DOMAIN planStatus
    /\ planStatus[selected.plan.Name] = selected.plan
    /\ selected.plan.Status = ExecutionInProgress

\* the plan in progress was returned although a complete plan finished later
C1_Witness ==
  /\ selectDone
  /\ PlanTest \in DOMAIN planStatus /\ PlanTest2 \in DOMAIN planStatus
  /\ planStatus[PlanTest] = PlanStatus(PlanTest, ExecutionInProgress, 0)
  /\ planStatus[PlanTest2] = PlanStatus(PlanTest2, ExecutionComplete, MaxTime)
  /\ selected = PlanPtr(planStatus[PlanTest])

\* C2: when no plan is in progress, the selector returns the complete plan that
\* finished last, the first in name order among those that finished at that
\* time; it returns none exactly when no plan is complete; and it never returns
\* a plan that never ran.
C2_LatestComplete ==
  /\ (selectDone /\ ~SomeInProgress) =>
       /\ selected.isNil <=> (CompletePlans = {})
       /\ ~selected.isNil =>
            /\ selected.plan.Name \in CompletePlans
            /\ planStatus[selected.plan.Name] = selected.plan
            /\ \A n \in CompletePlans \ {selected.plan.Name} :
                 \/ planStatus[n].LastFinishedRun < selected.plan.LastFinishedRun
                 \/ /\ planStatus[n].LastFinishedRun = selected.plan.LastFinishedRun
                    /\ LexLess(selected.plan.Name, n)
  /\ (selectDone /\ ~selected.isNil) => selected.plan.Status # ExecutionNeverRun

\* two complete plans finished at the same time and a third plan never ran
C2_Witness ==
  /\ selectDone
  /\ ~SomeInProgress
  /\ \E a, b \in CompletePlans :
       /\ a # b
       /\ planStatus[a].LastFinishedRun = planStatus[b].LastFinishedRun
       /\ selected.plan.Name = a
       /\ planStatus[a].LastFinishedRun > 0
  /\ \E n \in DOMAIN planStatus : planStatus[n].Status = ExecutionNeverRun

(***************************************************************************)
(* Properties of the parameters file                                       *)
(***************************************************************************)
TreatedAsParameters(path) ==
  ~isOperatorFile(path) /\ ~isTemplateFile(path) /\ isParametersFile(path)

RequiredError == "failed parsing required field from parameter"

\* the entries whose required value strconv.ParseBool refuses
UnparseableRequired(entries) ==
  {e \in entries : e.hasRequired /\ ~ParseBool(e.required).ok}

\* C11: a call of parsePackageFile on a parameters file that decodes gives every
\* entry one parameter whose Required is true when the entry has no required key
\* and the parsed boolean when it has one; when some entry's required value is no
\* boolean the call returns an error and leaves the bundle, its parameter list
\* included, as it was.
C11_RequiredHandling ==
  [][(/\ ncalls' = ncalls + 1
      /\ TreatedAsParameters(lastCall'.path)
      /\ UnmarshalParams(lastCall'.bytes).err = NoErr) =>
       LET entries == UnmarshalParams(lastCall'.bytes).val
           list    == currentPackage'.Params.list
       IN  IF UnparseableRequired(entries) # {}
           THEN /\ lastCall'.err.code = RequiredError
                /\ currentPackage' = currentPackage
           ELSE /\ lastCall'.err = NoErr
                /\ ~currentPackage'.Params.isNil
                /\ Len(list) = Cardinality(entries)
                /\ \A e \in entries :
                     \E i \in 1..Len(list) :
                       /\ list[i].Name = e.name
                       /\ list[i].Required =
                            (IF e.hasRequired THEN ParseBool(e.required).val ELSE TRUE)]_vars

\* a parameters file with an unparseable required value was refused after one
\* with an absent and a false required key had been installed, and that list is
\* still the bundle's
C11_Witness ==
  /\ lastCall.made
  /\ lastCall.path = PathParams
  /\ lastCall.bytes = DocParamsBad
  /\ lastCall.err.code = RequiredError
  /\ ~currentPackage.Params.isNil
  /\ Len(currentPackage.Params.list) = 2
  /\ \E i, j \in 1..2 :
       /\ currentPackage.Params.list[i].Name = "p1"
       /\ currentPackage.Params.list[i].Required = TRUE
       /\ currentPackage.Params.list[j].Name = "p2"
       /\ currentPackage.Params.list[j].Required = FALSE

(***************************************************************************)
(* One package parsed file by file                                         *)
(*                                                                         *)
(* The files of one package reach parsePackageFile one call per file, in   *)
(* the order the archive or the directory walk yields them.  feed is that  *)
(* order; every order of every package below is an initial state.  The     *)
(* files of a package have pairwise distinct paths.                        *)
(***************************************************************************)
PkgOperatorFiles == {File(PathOperator, DocOpOneRef), File(PathOperator, DocOpBadTasks)}
PkgParamsFiles   == {File(PathParams, DocParamsTwo), File(PathParams, DocParamsBad)}
PkgTemplateFiles == {File(PathFoo, DocManifest), File(PathNested, DocInvalid),
                     File(PathBar, DocManifest)}
PkgFiles == PkgOperatorFiles \cup PkgParamsFiles \cup PkgTemplateFiles

\* the positions of s whose file takes the operator, parameters, template branch
OperatorPositions(s) == {i \in 1..Len(s) : isOperatorFile(s[i].path)}
ParamsPositions(s)   == {i \in 1..Len(s) : TreatedAsParameters(s[i].path)}
TemplatePositions(s) == {i \in 1..Len(s) : TreatedAsTemplate(s[i].path)}

\* a package: one metadata file, one parameters file, the rest templates
IsPackage(s) ==
  /\ \A i, j \in 1..Len(s) : s[i].path = s[j].path => i = j
  /\ Cardinality(OperatorPositions(s)) = 1
  /\ Cardinality(ParamsPositions(s)) = 1
  /\ Cardinality(TemplatePositions(s)) = Len(s) - 2

Feeds == {s \in UNION {[1..n -> PkgFiles] : n \in 2..MaxFiles} : IsPackage(s)}

InitOrder ==
  /\ ParserIdle /\ BatchIdle /\ PlanIdle
  /\ feed \in Feeds

\* the next call parsePackageFile(f.path, f.bytes, &currentPackage) of the loop
\* over the files of the package
ParseNextFile(ord) ==
  /\ ncalls < Len(feed)
  /\ LET f == feed[ncalls + 1]
         r == parsePackageFile(f.path, f.bytes, currentPackage, ord)
     IN  /\ currentPackage' = r.pkg
         /\ lastCall' = [made |-> TRUE, path |-> f.path, bytes |-> f.bytes, err |-> r.err]
         /\ ncalls' = ncalls + 1
         /\ opCalled' = (opCalled \/ isOperatorFile(f.path))
         /\ paramsCalled' = (paramsCalled \/ TreatedAsParameters(f.path))
  /\ UNCHANGED <<crds, batchVars, planVars, feed>>

NextOrder == \E ord \in MapOrders : ParseNextFile(ord)

SpecOrder == InitOrder /\ [][NextOrder]_vars

(***************************************************************************)
(* Properties of the order of the files                                    *)
(***************************************************************************)
\* the bundle after parsePackageFile has been applied to files[i..] in turn
RECURSIVE ApplyAll(_, _, _, _)
ApplyAll(files, i, pkg, ord) ==
  IF i > Len(files) THEN pkg
  ELSE ApplyAll(files, i + 1,
                parsePackageFile(files[i].path, files[i].bytes, pkg, ord).pkg, ord)

\* s with the files at positions i and i+1 exchanged
Exchange(s, i) ==
  [j \in 1..Len(s) |-> IF j = i THEN s[i + 1] ELSE IF j = i + 1 THEN s[i] ELSE s[j]]

\* the same []Parameter up to the order of its elements
SameParams(a, b) ==
  /\ a.isNil = b.isNil
  /\ Len(a.list) = Len(b.list)
  /\ {a.list[i] : i \in 1..Len(a.list)} = {b.list[i] : i \in 1..Len(b.list)}

\* the positions of s holding a template file that derives key k
WithKey(s, k) ==
  {i \in 1..Len(s) : TreatedAsTemplate(s[i].path) /\ TemplateName(s[i].path) = k}
LastWithKey(s, k) == s[CHOOSE i \in WithKey(s, k) : \A j \in WithKey(s, k) : j <= i]
TemplateKeys(s) ==
  {TemplateName(s[i].path) : i \in {j \in 1..Len(s) : TreatedAsTemplate(s[j].path)}}
DistinctKeys(s) == \A k \in TemplateKeys(s) : Cardinality(WithKey(s, k)) = 1

\* every template key holds the content of the last file of s deriving it
LastWriteWins(s, pkg) ==
  /\ DOMAIN pkg.Templates = TemplateKeys(s)
  /\ \A k \in TemplateKeys(s) : pkg.Templates[k] = LastWithKey(s, k).bytes

\* bundle b, built from the files in the order other, against bundle a, built
\* from the same files in the order s
OrdersAgree(s, a, other, b) ==
  /\ a.Operator = b.Operator
  /\ SameParams(a.Params, b.Params)
  /\ LastWriteWins(s, a)
  /\ LastWriteWins(other, b)
  /\ DistinctKeys(s) => a.Templates = b.Templates

\* C12: once every file of a package with one metadata file and one parameters
\* file has been parsed, the bundle has the metadata and the set of parameters
\* that the same files with any two neighbours exchanged, under any iteration
\* order of the parameters map, produce from newPackageFiles(); the template map
\* is the same too when the derived keys are pairwise distinct, and otherwise
\* each key holds the content of the file parsed last among those deriving it.
\* Every order of the package is an initial state, and any permutation is a
\* chain of such exchanges.
C12_OrderIndependence ==
  (ncalls = Len(feed) /\ feed # <<>>) =>
    \A i \in 1..(Len(feed) - 1), ord \in MapOrders :
      OrdersAgree(feed, currentPackage,
                  Exchange(feed, i), ApplyAll(Exchange(feed, i), 1, newPackageFiles, ord))

\* a package whose metadata file comes third and in which two template files
\* derive foo.yaml has been parsed to its end
C12_Witness ==
  /\ feed = <<File(PathFoo, DocManifest), File(PathParams, DocParamsTwo),
              File(PathOperator, DocOpOneRef), File(PathNested, DocInvalid)>>
  /\ ncalls = Len(feed)
  /\ currentPackage.Templates[FooYaml] = DocInvalid
  /\ ~currentPackage.Operator.isNil
  /\ Len(currentPackage.Params.list) = 2

====
